---- MODULE Spec2Model ----
(***************************************************************************)
(* A model of src/orm/orm-base.js: the Store class with its model          *)
(* registry (registerModel), the two-hop relationship resolver             *)
(* (getThroughRelationshipData) and the batch operations saveAll and       *)
(* deleteAll with their helpers _saveAll and _deleteAll.                   *)
(*                                                                         *)
(* JavaScript values are encoded as follows.                               *)
(*   - A value that the code tests with isObject() is a record with a      *)
(*     boolean field isObject; the other fields are only read when it is   *)
(*     TRUE.                                                               *)
(*   - An object used as a dictionary (modelRegistry, a relationship       *)
(*     mapping) is a function whose DOMAIN is Object.keys() of it.         *)
(*   - String concatenation a + b + c is the tuple <<a, b, c>> of its      *)
(*     pieces.                                                             *)
(*   - null is the string "null"; a falsy table name is the empty string.  *)
(***************************************************************************)
EXTENDS Naturals, Sequences, FiniteSets, TLC

VARIABLES
    modelRegistry,  \* this.modelRegistry: model name -> registered model
    lastCall,       \* the Store method called last, with its arguments
    thrown,         \* what that call threw ("none" when it returned)
    returned,       \* what that call returned
    lookups,        \* the registry reads and relationship scans it made
    prior,          \* what modelRegistry[model.name] held before registerModel
    isModelGlobal,  \* whether the host's global object binds `isModel`
    pc,             \* position of the running saveAll/deleteAll call
    method,         \* "save" for saveAll, "delete" for deleteAll
    modelInstances, \* argument of the batch call
    transaction,    \* argument of the batch call: "null" or a caller handle
    trx,            \* the handle the loop runs against
    i,              \* loop index of _saveAll/_deleteAll (1-based)
    events,         \* what the call did to the engine and the instances
    rejection       \* the fault the call rejected with ("none" otherwise)

storeVars == <<modelRegistry, lastCall, thrown, returned, lookups, prior>>
batchVars == <<isModelGlobal, pc, method, modelInstances, transaction, trx, i,
               events, rejection>>
vars == <<modelRegistry, lastCall, thrown, returned, lookups, prior, isModelGlobal,
          pc, method, modelInstances, transaction, trx, i, events, rejection>>

----------------------------------------------------------------------------
(* Relationship kinds (./constants) *)

BELONGS_TO == "belongsTo"
HAS_MANY == "hasMany"
HAS_ONE == "hasOne"
HAS_MANY_THROUGH == "hasManyThrough"

Null == "null"

EmptyObject == [k \in {} |-> Null]

(* ../helpers isObject: a non-null structured object *)
isObject(value) == value.isObject

NotObject == [isObject |-> FALSE, entries |-> EmptyObject]

ObjectOf(entries) == [isObject |-> TRUE, entries |-> entries]

----------------------------------------------------------------------------
(* The inputs the calls are exercised with *)

ModelNames == {"Order", "Item"}

UnregisteredName == "Ghost"

DeclaredRelation == "rel"

ThroughOnlyRelation == "via"

UndeclaredRelation == "other"

RelationNames == {DeclaredRelation, ThroughOnlyRelation, UndeclaredRelation}

TargetRelationNames == {DeclaredRelation, UndeclaredRelation}

KeyOf == [belongsTo |-> "owner_id", hasMany |-> "parent_id",
          hasOne |-> "holder_id", hasManyThrough |-> "via_id"]

Descriptor(relType, modelName) == [model |-> modelName, key |-> KeyOf[relType]]

RelationMaps(relType) ==
    {NotObject} \cup
    {ObjectOf([r \in {DeclaredRelation} |-> Descriptor(relType, m)]) : m \in ModelNames}

ThroughMap ==
    ObjectOf([r \in {ThroughOnlyRelation} |-> Descriptor(HAS_MANY_THROUGH, "Item")])

SomeAttributes == [isObject |-> TRUE, keys |-> {"id"}]

NoAttributes == [isObject |-> TRUE, keys |-> {}]

AttributesNotObject == [isObject |-> FALSE, keys |-> {}]

Definition(table, attributes, b, m, o) ==
    [isObject |-> TRUE, table |-> table, attributes |-> attributes,
     belongsTo |-> b, hasMany |-> m, hasOne |-> o, hasManyThrough |-> ThroughMap]

DefinitionNotObject ==
    [isObject |-> FALSE, table |-> "", attributes |-> AttributesNotObject,
     belongsTo |-> NotObject, hasMany |-> NotObject, hasOne |-> NotObject,
     hasManyThrough |-> NotObject]

ValidDefinitions ==
    {Definition("tbl", SomeAttributes, b, m, o) :
        b \in RelationMaps(BELONGS_TO), m \in RelationMaps(HAS_MANY),
        o \in RelationMaps(HAS_ONE)}

InvalidDefinitions ==
    {DefinitionNotObject} \cup
    {Definition("", a, b, NotObject, NotObject) :
        a \in {SomeAttributes, NoAttributes, AttributesNotObject},
        b \in {NotObject, ObjectOf([r \in {DeclaredRelation} |-> Descriptor(BELONGS_TO, "Item")])}} \cup
    {Definition("tbl", a, NotObject, NotObject, NotObject) :
        a \in {NoAttributes, AttributesNotObject}}

ModelClasses ==
    {[isModelClass |-> TRUE, name |-> n, model_definition |-> d] :
        n \in ModelNames, d \in ValidDefinitions \cup InvalidDefinitions} \cup
    {[isModelClass |-> FALSE, name |-> n,
      model_definition |-> Definition("tbl", SomeAttributes, NotObject, NotObject, NotObject)] :
        n \in ModelNames}

----------------------------------------------------------------------------
(* Store.isModel *)
isModel(model) == model.isModelClass

InvalidModelError(message) == [name |-> "InvalidModelError", message |-> message]

NoError == [name |-> "none", message |-> ""]

Undefined == [tag |-> "undefined"]

String(text) == [tag |-> "string", text |-> text]

RegisterCall(model) ==
    [fn |-> "registerModel", model |-> model, parentModel |-> Null,
     throughRelation |-> Null, targetRelation |-> Null]

ResolveCall(parentModel, throughRelation, targetRelation) ==
    [fn |-> "getThroughRelationshipData", model |-> Null, parentModel |-> parentModel,
     throughRelation |-> throughRelation, targetRelation |-> targetRelation]

(* this.modelRegistry[name] = model *)
Assign(registry, name, model) ==
    [n \in (DOMAIN registry) \cup {name} |-> IF n = name THEN model ELSE registry[n]]

(* What the registry holds under model.name when registerModel is entered *)
PriorEntry(model) ==
    IF model.name \notin DOMAIN modelRegistry THEN "absent"
    ELSE IF modelRegistry[model.name] = model THEN "same" ELSE "different"

(* registerModel without the check of lines 51-53 *)
registerModelNoTableCheck(model) ==
    /\ lastCall' = RegisterCall(model)
    /\ returned' = Undefined
    /\ lookups' = <<>>
    /\ IF ~isModel(model)
       THEN /\ thrown' = InvalidModelError("Registered model not instance of store model")
            /\ UNCHANGED modelRegistry
            /\ prior' = "none"
       ELSE IF ~isObject(model.model_definition)
       THEN /\ thrown' = InvalidModelError("model_definition must be of type object")
            /\ UNCHANGED modelRegistry
            /\ prior' = "none"
       ELSE IF \/ ~isObject(model.model_definition.attributes)
               \/ Cardinality(model.model_definition.attributes.keys) = 0
       THEN /\ thrown' = InvalidModelError("model_definition.attributes must be non empty object")
            /\ UNCHANGED modelRegistry
            /\ prior' = "none"
       ELSE /\ thrown' = NoError
            /\ prior' = PriorEntry(model)
            /\ modelRegistry' = Assign(modelRegistry, model.name, model)

(* Store.registerModel *)
registerModel(model) ==
    /\ lastCall' = RegisterCall(model)
    /\ returned' = Undefined
    /\ lookups' = <<>>
    /\ IF ~isModel(model)
       THEN /\ thrown' = InvalidModelError("Registered model not instance of store model")
            /\ UNCHANGED modelRegistry
            /\ prior' = "none"
       ELSE IF ~isObject(model.model_definition)
       THEN /\ thrown' = InvalidModelError("model_definition must be of type object")
            /\ UNCHANGED modelRegistry
            /\ prior' = "none"
       ELSE IF model.model_definition.table = ""
       THEN /\ thrown' = InvalidModelError("model_definition.table required")
            /\ UNCHANGED modelRegistry
            /\ prior' = "none"
       ELSE IF \/ ~isObject(model.model_definition.attributes)
               \/ Cardinality(model.model_definition.attributes.keys) = 0
       THEN /\ thrown' = InvalidModelError("model_definition.attributes must be non empty object")
            /\ UNCHANGED modelRegistry
            /\ prior' = "none"
       ELSE /\ thrown' = NoError
            /\ prior' = PriorEntry(model)
            /\ modelRegistry' = Assign(modelRegistry, model.name, model)

----------------------------------------------------------------------------
(* Store.getThroughRelationshipData *)

(* relTypes with the fourth relationship kind scanned as well *)
relTypesAll == <<BELONGS_TO, HAS_MANY, HAS_ONE, HAS_MANY_THROUGH>>

relTypes == <<BELONGS_TO, HAS_MANY, HAS_ONE>>

NoRelation == [type |-> Null, model |-> Null, key |-> Null]

(* the scan stopping at the first kind that declares the relation *)
RECURSIVE scanFirstMatch(_, _, _, _)
scanFirstMatch(model_definition, relation, n, found) ==
    IF n > Len(relTypes) \/ found.model # Null THEN found
    ELSE LET relType == relTypes[n]
             mapping == model_definition[relType]
         IN scanFirstMatch(model_definition, relation, n + 1,
                IF isObject(mapping) /\ relation \in DOMAIN mapping.entries
                THEN [type |-> relType,
                      model |-> mapping.entries[relation].model,
                      key |-> mapping.entries[relation].key]
                ELSE found)

(* relTypes.map(relType => { ... }) from index n on; found is what the
   earlier iterations left in result *)
RECURSIVE scanRelTypes(_, _, _, _)
scanRelTypes(model_definition, relation, n, found) ==
    IF n > Len(relTypes) THEN found
    ELSE LET relType == relTypes[n]
             mapping == model_definition[relType]
         IN scanRelTypes(model_definition, relation, n + 1,
                IF isObject(mapping) /\ relation \in DOMAIN mapping.entries
                THEN [type |-> relType,
                      model |-> mapping.entries[relation].model,
                      key |-> mapping.entries[relation].key]
                ELSE found)

RegistryRead(name) == <<"modelRegistry", name>>

ScanReads(hop) == [n \in 1..Len(relTypes) |-> <<hop, relTypes[n]>>]

(* the target hop leaving result.targetModel the name, not the registry entry,
   of the through-model's own definition (line 98 reading the wrong key) *)
resolveTargetWrongEntry(through, targetRelation, throughLookups) ==
    LET throughModel == modelRegistry[through.model]
        target_model_definition == throughModel.model_definition
        target == scanRelTypes(target_model_definition, targetRelation, 1, NoRelation)
        targetLookups == throughLookups \o ScanReads("target")
    IN
    IF target.model = Null
    THEN [value |-> String(<<"Invalid target relation [", targetRelation, "]">>),
          lookups |-> targetLookups]
    ELSE IF target.model \notin DOMAIN modelRegistry
    THEN [value |-> String(<<"Invalid target model [", target.model, "]">>),
          lookups |-> targetLookups \o <<RegistryRead(target.model)>>]
    ELSE [value |->
            [tag |-> "object",
             throughRelationshipType |-> through.type,
             throughModel |-> throughModel,
             throughKey |-> through.key,
             targetRelationshipType |-> target.type,
             targetModel |-> modelRegistry[through.model],
             targetKey |-> target.key,
             relationshipCombination |-> <<through.type, "-", target.type>>],
          lookups |-> targetLookups \o <<RegistryRead(through.model)>>]

(* lines 85-100: the target hop, scanned on the through-model *)
resolveTarget(through, targetRelation, throughLookups) ==
    LET throughModel == modelRegistry[through.model]
        target_model_definition == throughModel.model_definition
        target == scanRelTypes(target_model_definition, targetRelation, 1, NoRelation)
        targetLookups == throughLookups \o ScanReads("target")
    IN
    IF target.model = Null
    THEN [value |-> String(<<"Invalid target relation [", targetRelation, "]">>),
          lookups |-> targetLookups]
    ELSE IF target.model \notin DOMAIN modelRegistry
    THEN [value |-> String(<<"Invalid target model [", target.model, "]">>),
          lookups |-> targetLookups \o <<RegistryRead(target.model)>>]
    ELSE [value |->
            [tag |-> "object",
             throughRelationshipType |-> through.type,
             throughModel |-> throughModel,
             throughKey |-> through.key,
             targetRelationshipType |-> target.type,
             targetModel |-> modelRegistry[target.model],
             targetKey |-> target.key,
             relationshipCombination |-> <<through.type, "-", target.type>>],
          lookups |-> targetLookups \o <<RegistryRead(target.model)>>]

(* lines 70-84: the through hop, scanned on the parent *)
resolveThrough(parentModel, throughRelation, targetRelation) ==
    LET model_definition == modelRegistry[parentModel].model_definition
        through == scanRelTypes(model_definition, throughRelation, 1, NoRelation)
        throughLookups == <<RegistryRead(parentModel)>> \o ScanReads("through")
    IN
    IF through.model = Null
    THEN [value |-> String(<<"Invalid through relation [", throughRelation, "]">>),
          lookups |-> throughLookups]
    ELSE IF through.model \notin DOMAIN modelRegistry
    THEN [value |-> String(<<"Invalid through model [", through.model, "]">>),
          lookups |-> throughLookups \o <<RegistryRead(through.model)>>]
    ELSE resolveTarget(through, targetRelation,
                       throughLookups \o <<RegistryRead(through.model)>>)

(* the parent check made only after the through scan *)
getThroughRelationshipDataLateCheck(parentModel, throughRelation, targetRelation) ==
    IF parentModel \notin DOMAIN modelRegistry
    THEN [value |-> String(<<"Invalid parent model">>),
          lookups |-> ScanReads("through") \o <<RegistryRead(parentModel)>>]
    ELSE resolveThrough(parentModel, throughRelation, targetRelation)

getThroughRelationshipData(parentModel, throughRelation, targetRelation) ==
    IF parentModel \notin DOMAIN modelRegistry
    THEN [value |-> String(<<"Invalid parent model">>),
          lookups |-> <<RegistryRead(parentModel)>>]
    ELSE resolveThrough(parentModel, throughRelation, targetRelation)

(* A call of getThroughRelationshipData by the query builder *)
Resolve(parentModel, throughRelation, targetRelation) ==
    LET result == getThroughRelationshipData(parentModel, throughRelation, targetRelation)
    IN /\ lastCall' = ResolveCall(parentModel, throughRelation, targetRelation)
       /\ returned' = result.value
       /\ lookups' = result.lookups
       /\ thrown' = NoError
       /\ prior' = "none"
       /\ UNCHANGED modelRegistry

----------------------------------------------------------------------------
(* The store on its own: registration and resolution *)

InitStore ==
    /\ modelRegistry = EmptyObject
    /\ lastCall = [fn |-> "constructor", model |-> Null, parentModel |-> Null,
                   throughRelation |-> Null, targetRelation |-> Null]
    /\ thrown = NoError
    /\ returned = Undefined
    /\ lookups = <<>>
    /\ prior = "none"

InitBatchIdle ==
    /\ isModelGlobal = FALSE
    /\ pc = "idle"
    /\ method = "save"
    /\ modelInstances = [isArray |-> TRUE, items |-> <<>>]
    /\ transaction = Null
    /\ trx = Null
    /\ i = 1
    /\ events = <<>>
    /\ rejection = "none"

Register == \E model \in ModelClasses : registerModel(model) /\ UNCHANGED batchVars

Query ==
    \E parentModel \in ModelNames \cup {UnregisteredName},
       throughRelation \in RelationNames, targetRelation \in TargetRelationNames :
        Resolve(parentModel, throughRelation, targetRelation) /\ UNCHANGED batchVars

NextStore == Register \/ Query

InitStoreAlone == InitStore /\ InitBatchIdle

SpecStore == InitStoreAlone /\ [][NextStore]_vars

----------------------------------------------------------------------------
(* saveAll / deleteAll *)

MaxLen == 3

(* The values a list handed to saveAll/deleteAll may hold.  persistable says
   whether the value has the save and delete methods of a model instance. *)
NullValue == [kind |-> "null", isObject |-> FALSE, persistable |-> FALSE]

Primitive == [kind |-> "primitive", isObject |-> FALSE, persistable |-> FALSE]

PlainObject == [kind |-> "plain", isObject |-> TRUE, persistable |-> FALSE]

ModelInstance == [kind |-> "model", isObject |-> TRUE, persistable |-> TRUE]

Values == {NullValue, Primitive, PlainObject, ModelInstance}

Lists == UNION {[1..n -> Values] : n \in 0..MaxLen}

ArrayOf(items) == [isArray |-> TRUE, items |-> items]

NotArray == [isArray |-> FALSE, items |-> <<>>]

Arguments == {ArrayOf(items) : items \in Lists} \cup {NotArray}

CallerTransaction == "callerTrx"

OwnTransaction == "trx"

Event(type, index, on) == [type |-> type, index |-> index, on |-> on]

(* Store.isModelInstance: the outcomes of
   isObject(modelInstance) && isModel(modelInstance.constructor).
   isModel is a free identifier there (the method would be this.isModel): it
   is looked up on the global object.  With no such global the evaluation
   throws a ReferenceError; a global of that name is a function the source
   does not determine, so its answer is either truth value. *)
isModelInstance(modelInstance) ==
    IF ~isObject(modelInstance) THEN {"false"}
    ELSE IF ~isModelGlobal THEN {"ReferenceError"}
    ELSE {"true", "false"}

(* Entry of saveAll (m = "save") or deleteAll (m = "delete"), up to the call
   of the loop.  A behaviour follows one call from its entry until its
   promise settles; the call keeps no state from one call to the next. *)
Enter(m, instances, handle) ==
    /\ pc = "idle"
    /\ method' = m
    /\ modelInstances' = instances
    /\ transaction' = handle
    /\ i' = 1
    /\ rejection' = "none"
    /\ IF ~instances.isArray
       THEN /\ pc' = "resolved"
            /\ trx' = Null
            /\ events' = <<>>
       ELSE IF handle # Null
       THEN /\ pc' = "loop"
            /\ trx' = handle
            /\ events' = <<>>
       ELSE /\ pc' = "loop"
            /\ trx' = OwnTransaction
            /\ events' = <<Event("transaction", 0, OwnTransaction)>>
    /\ UNCHANGED isModelGlobal

saveAll(instances, handle) == Enter("save", instances, handle)

deleteAll(instances, handle) == Enter("delete", instances, handle)

(* the iteration with the await left out: the operation is started and the
   loop goes on at once *)
IterationNoAwait ==
    /\ pc = "loop"
    /\ i <= Len(modelInstances.items)
    /\ \E outcome \in isModelInstance(modelInstances.items[i]) :
          IF outcome = "ReferenceError"
          THEN /\ pc' = "rejected"
               /\ rejection' = "ReferenceError"
               /\ UNCHANGED <<i, events>>
          ELSE IF outcome = "false"
          THEN /\ i' = i + 1
               /\ UNCHANGED <<pc, rejection, events>>
          ELSE IF ~modelInstances.items[i].persistable
          THEN /\ pc' = "rejected"
               /\ rejection' = "TypeError"
               /\ UNCHANGED <<i, events>>
          ELSE /\ i' = i + 1
               /\ events' = Append(events, Event("begin", i, trx))
               /\ UNCHANGED <<pc, rejection>>
    /\ UNCHANGED <<isModelGlobal, method, modelInstances, transaction, trx>>

(* One iteration of the for loop of _saveAll/_deleteAll, up to the await *)
Iteration ==
    /\ pc = "loop"
    /\ i <= Len(modelInstances.items)
    /\ \E outcome \in isModelInstance(modelInstances.items[i]) :
          IF outcome = "ReferenceError"
          THEN /\ pc' = "rejected"
               /\ rejection' = "ReferenceError"
               /\ UNCHANGED <<i, events>>
          ELSE IF outcome = "false"
          THEN /\ i' = i + 1
               /\ UNCHANGED <<pc, rejection, events>>
          ELSE IF ~modelInstances.items[i].persistable
          THEN /\ pc' = "rejected"
               /\ rejection' = "TypeError"
               /\ UNCHANGED <<i, events>>
          ELSE /\ pc' = "awaitOperation"
               /\ events' = Append(events, Event("begin", i, trx))
               /\ UNCHANGED <<i, rejection>>
    /\ UNCHANGED <<isModelGlobal, method, modelInstances, transaction, trx>>

_saveAll == method = "save" /\ Iteration

_deleteAll == method = "delete" /\ Iteration

(* await modelInstances[i].save(transaction) resolves: the loop goes on *)
OperationResolves ==
    /\ pc = "awaitOperation"
    /\ events' = Append(events, Event("end", i, trx))
    /\ i' = i + 1
    /\ pc' = "loop"
    /\ UNCHANGED <<isModelGlobal, method, modelInstances, transaction, trx, rejection>>

(* the rejection caught inside the loop, which then goes on *)
OperationRejectsCaught ==
    /\ pc = "awaitOperation"
    /\ events' = Append(events, Event("fault", i, trx))
    /\ i' = i + 1
    /\ pc' = "loop"
    /\ UNCHANGED <<isModelGlobal, method, modelInstances, transaction, trx, rejection>>

(* await modelInstances[i].save(transaction) rejects: nothing catches it *)
OperationRejects ==
    /\ pc = "awaitOperation"
    /\ events' = Append(events, Event("fault", i, trx))
    /\ rejection' = "OperationFault"
    /\ pc' = "rejected"
    /\ UNCHANGED <<isModelGlobal, method, modelInstances, transaction, trx, i>>

(* the commit issued on whichever handle the loop ran against *)
AfterLoopAlwaysCommits ==
    /\ pc = "loop"
    /\ i > Len(modelInstances.items)
    /\ pc' = "awaitCommit"
    /\ events' = Append(events, Event("commit", 0, trx))
    /\ UNCHANGED <<isModelGlobal, method, modelInstances, transaction, trx, i, rejection>>

(* The loop has run off the list: with a caller's handle the call is over,
   otherwise the handler goes on to await trx.commit() *)
AfterLoop ==
    /\ pc = "loop"
    /\ i > Len(modelInstances.items)
    /\ IF transaction # Null
       THEN /\ pc' = "resolved"
            /\ UNCHANGED events
       ELSE /\ pc' = "awaitCommit"
            /\ events' = Append(events, Event("commit", 0, trx))
    /\ UNCHANGED <<isModelGlobal, method, modelInstances, transaction, trx, i, rejection>>

CommitResolves ==
    /\ pc = "awaitCommit"
    /\ pc' = "resolved"
    /\ UNCHANGED <<isModelGlobal, method, modelInstances, transaction, trx, i, events,
                   rejection>>

CommitRejects ==
    /\ pc = "awaitCommit"
    /\ pc' = "rejected"
    /\ rejection' = "CommitFault"
    /\ UNCHANGED <<isModelGlobal, method, modelInstances, transaction, trx, i, events>>

InitBatch ==
    /\ isModelGlobal \in BOOLEAN
    /\ pc = "idle"
    /\ method = "save"
    /\ modelInstances = ArrayOf(<<>>)
    /\ transaction = Null
    /\ trx = Null
    /\ i = 1
    /\ events = <<>>
    /\ rejection = "none"

CallSaveAll ==
    \E instances \in Arguments, handle \in {Null, CallerTransaction} :
        saveAll(instances, handle)

CallDeleteAll ==
    \E instances \in Arguments, handle \in {Null, CallerTransaction} :
        deleteAll(instances, handle)

NextBatch ==
    \/ CallSaveAll /\ UNCHANGED storeVars
    \/ CallDeleteAll /\ UNCHANGED storeVars
    \/ _saveAll /\ UNCHANGED storeVars
    \/ _deleteAll /\ UNCHANGED storeVars
    \/ OperationResolves /\ UNCHANGED storeVars
    \/ OperationRejects /\ UNCHANGED storeVars
    \/ AfterLoop /\ UNCHANGED storeVars
    \/ CommitResolves /\ UNCHANGED storeVars
    \/ CommitRejects /\ UNCHANGED storeVars

InitBatchCall == InitStore /\ InitBatch

SpecBatch == InitBatchCall /\ [][NextBatch]_vars

----------------------------------------------------------------------------
(* Vocabulary of the properties of the registry and the resolver *)

ScannedKinds == {"belongsTo", "hasMany", "hasOne"}

ScanOrder == [belongsTo |-> 1, hasMany |-> 2, hasOne |-> 3]

Declares(model, kind, relation) ==
    /\ model.model_definition[kind].isObject
    /\ relation \in DOMAIN model.model_definition[kind].entries

DeclaringKinds(model, relation) == {k \in ScannedKinds : Declares(model, k, relation)}

Declared(model, kind, relation) == model.model_definition[kind].entries[relation]

LastDeclaring(model, relation) ==
    CHOOSE k \in DeclaringKinds(model, relation) :
        \A k2 \in DeclaringKinds(model, relation) : ScanOrder[k2] <= ScanOrder[k]

Resolving == lastCall.fn = "getThroughRelationshipData"

Registered(name) == name \in DOMAIN modelRegistry

(* every declaration of the relation on the model names a registered model *)
HopDeclared(model, relation) ==
    /\ DeclaringKinds(model, relation) # {}
    /\ \A k \in DeclaringKinds(model, relation) :
          Registered(Declared(model, k, relation).model)

ValidTriple ==
    /\ Resolving
    /\ Registered(lastCall.parentModel)
    /\ HopDeclared(modelRegistry[lastCall.parentModel], lastCall.throughRelation)
    /\ \A k \in DeclaringKinds(modelRegistry[lastCall.parentModel], lastCall.throughRelation) :
          HopDeclared(modelRegistry[Declared(modelRegistry[lastCall.parentModel], k,
                                             lastCall.throughRelation).model],
                      lastCall.targetRelation)

(* C1: for a registered parent whose through relation is declared under
   belongsTo/hasMany/hasOne and names a registered model, and a target
   relation declared likewise on that through-model, the call returns a
   record whose throughModel and targetModel are the registry entries of the
   named models, whose keys are the keys of the two descriptors, and whose
   relationshipCombination is throughRelationshipType + '-' +
   targetRelationshipType. *)
C1_ValidTripleResolved ==
    ValidTriple =>
        /\ returned.tag = "object"
        /\ \E k1 \in DeclaringKinds(modelRegistry[lastCall.parentModel],
                                    lastCall.throughRelation) :
             LET d1 == Declared(modelRegistry[lastCall.parentModel], k1,
                                lastCall.throughRelation)
             IN /\ returned.throughRelationshipType = k1
                /\ returned.throughModel = modelRegistry[d1.model]
                /\ returned.throughKey = d1.key
                /\ \E k2 \in DeclaringKinds(modelRegistry[d1.model],
                                            lastCall.targetRelation) :
                     LET d2 == Declared(modelRegistry[d1.model], k2,
                                        lastCall.targetRelation)
                     IN /\ returned.targetRelationshipType = k2
                        /\ returned.targetModel = modelRegistry[d2.model]
                        /\ returned.targetKey = d2.key
                        /\ returned.relationshipCombination = <<k1, "-", k2>>

C1_Witness ==
    /\ ValidTriple
    /\ returned.tag = "object"
    /\ returned.relationshipCombination = <<"hasMany", "-", "belongsTo">>
    /\ returned.throughModel.name = "Item"
    /\ returned.targetModel.name = "Order"
    /\ lastCall.parentModel = "Order"

(* C5: for a registered parent and a relation name declared under none of
   its belongsTo, hasMany, hasOne mappings (a name declared only under
   hasManyThrough included), the call returns
   'Invalid through relation [<name>]' with the queried name, never a
   record. *)
C5_UndeclaredThroughRejected ==
    ( /\ Resolving
      /\ Registered(lastCall.parentModel)
      /\ DeclaringKinds(modelRegistry[lastCall.parentModel],
                        lastCall.throughRelation) = {} )
    => returned = String(<<"Invalid through relation [", lastCall.throughRelation, "]">>)

C5_Witness ==
    /\ Resolving
    /\ Registered(lastCall.parentModel)
    /\ lastCall.throughRelation = "via"
    /\ "via" \in DOMAIN modelRegistry[lastCall.parentModel].model_definition.hasManyThrough.entries
    /\ Registered(modelRegistry[lastCall.parentModel].model_definition.hasManyThrough.entries["via"].model)
    /\ returned = String(<<"Invalid through relation [", "via", "]">>)

(* C6: for a parent name that is no key of the registry, the call returns
   'Invalid parent model' and, beyond that one registry read, makes no
   lookup: no relationship scan and no further registry read. *)
C6_UnregisteredParentRejected ==
    (Resolving /\ ~Registered(lastCall.parentModel))
    => /\ returned = String(<<"Invalid parent model">>)
       /\ lookups = << <<"modelRegistry", lastCall.parentModel>> >>

C6_Witness ==
    /\ Resolving
    /\ ~Registered(lastCall.parentModel)
    /\ lastCall.parentModel = "Item"
    /\ Registered("Order")
    /\ lastCall.throughRelation = "rel"
    /\ returned = String(<<"Invalid parent model">>)

ValidModel(model) ==
    /\ model.isModelClass
    /\ model.model_definition.isObject
    /\ model.model_definition.table # ""
    /\ model.model_definition.attributes.isObject
    /\ model.model_definition.attributes.keys # {}

LacksTable(model) == ~model.model_definition.isObject \/ model.model_definition.table = ""

(* C7: registering a valid model whose name is already registered replaces
   that entry by the new model and leaves every other entry as it was;
   registering a model whose model_definition lacks a table fails with
   InvalidModelError, whatever its attributes, and leaves the registry as it
   was. *)
C7_RegisterOverwritesOrFails ==
    [][ lastCall'.fn = "registerModel" =>
          /\ ( ValidModel(lastCall'.model) /\ Registered(lastCall'.model.name) )
             => /\ thrown' = NoError
                /\ DOMAIN modelRegistry' = DOMAIN modelRegistry
                /\ modelRegistry'[lastCall'.model.name] = lastCall'.model
                /\ \A n \in DOMAIN modelRegistry :
                      n # lastCall'.model.name => modelRegistry'[n] = modelRegistry[n]
          /\ LacksTable(lastCall'.model)
             => /\ thrown'.name = "InvalidModelError"
                /\ modelRegistry' = modelRegistry
      ]_vars

C7_Witness ==
    /\ lastCall.fn = "registerModel"
    /\ thrown = NoError
    /\ prior = "different"
    /\ modelRegistry[lastCall.model.name] = lastCall.model
    /\ DOMAIN modelRegistry = {"Order", "Item"}

ThroughCollision ==
    /\ Resolving
    /\ Registered(lastCall.parentModel)
    /\ Cardinality(DeclaringKinds(modelRegistry[lastCall.parentModel],
                                  lastCall.throughRelation)) > 1

ThroughWinner ==
    Declared(modelRegistry[lastCall.parentModel],
             LastDeclaring(modelRegistry[lastCall.parentModel], lastCall.throughRelation),
             lastCall.throughRelation)

TargetCollision ==
    /\ Resolving
    /\ Registered(lastCall.parentModel)
    /\ DeclaringKinds(modelRegistry[lastCall.parentModel], lastCall.throughRelation) # {}
    /\ Registered(ThroughWinner.model)
    /\ Cardinality(DeclaringKinds(modelRegistry[ThroughWinner.model],
                                  lastCall.targetRelation)) > 1

TargetWinner ==
    Declared(modelRegistry[ThroughWinner.model],
             LastDeclaring(modelRegistry[ThroughWinner.model], lastCall.targetRelation),
             lastCall.targetRelation)

(* C10: when a relation name is declared under more than one of belongsTo,
   hasMany, hasOne, the kind that comes last in that order decides the hop:
   its type, model and key are the resolved ones, on the parent for the
   through hop and on the through-model for the target hop (and it is its
   model that is reported when that model is not registered). *)
C10_LastMatchingKindWins ==
    /\ ThroughCollision =>
         IF Registered(ThroughWinner.model)
         THEN /\ returned.tag = "string" =>
                    returned.text[1] \in {"Invalid target relation [", "Invalid target model ["}
              /\ returned.tag = "object" =>
                    /\ returned.throughRelationshipType =
                          LastDeclaring(modelRegistry[lastCall.parentModel],
                                        lastCall.throughRelation)
                    /\ returned.throughModel = modelRegistry[ThroughWinner.model]
                    /\ returned.throughKey = ThroughWinner.key
         ELSE returned = String(<<"Invalid through model [", ThroughWinner.model, "]">>)
    /\ TargetCollision =>
         IF Registered(TargetWinner.model)
         THEN /\ returned.tag = "object"
              /\ returned.targetRelationshipType =
                    LastDeclaring(modelRegistry[ThroughWinner.model], lastCall.targetRelation)
              /\ returned.targetModel = modelRegistry[TargetWinner.model]
              /\ returned.targetKey = TargetWinner.key
         ELSE returned = String(<<"Invalid target model [", TargetWinner.model, "]">>)

C10_Witness ==
    /\ ThroughCollision
    /\ TargetCollision
    /\ returned.tag = "object"
    /\ \E k \in DeclaringKinds(modelRegistry[lastCall.parentModel], lastCall.throughRelation) :
          Declared(modelRegistry[lastCall.parentModel], k, lastCall.throughRelation).model
              # returned.throughModel.name
    /\ \E k \in DeclaringKinds(returned.throughModel, lastCall.targetRelation) :
          Declared(returned.throughModel, k, lastCall.targetRelation).model
              # returned.targetModel.name

----------------------------------------------------------------------------
(* Vocabulary of the properties of saveAll and deleteAll *)

Called == pc # "idle" /\ modelInstances.isArray

Settled == pc \in {"resolved", "rejected"}

Positions(type) == {p \in 1..Len(events) : events[p].type = type}

IsBegin(e) == e.type = "begin"

(* the list indexes on which save/delete was invoked, in invocation order *)
Invoked ==
    LET begins == SelectSeq(events, IsBegin)
    IN [p \in 1..Len(begins) |-> begins[p].index]

IsModelAt(n) == modelInstances.items[n].kind = "model"

(* the list indexes that hold model instances, in list order *)
ModelIndexes == SelectSeq([n \in 1..Len(modelInstances.items) |-> n], IsModelAt)

IsPrefix(s, t) == Len(s) <= Len(t) /\ \A p \in 1..Len(s) : s[p] = t[p]

(* C2: with a handle supplied the call opens no transaction and never
   commits; with none it opens exactly one transaction, runs every instance
   operation against it, and commits exactly once, after all instance
   operations have completed successfully. *)
C2_OwnTransactionCommittedOnce ==
    Called =>
        /\ transaction # Null =>
              Positions("transaction") = {} /\ Positions("commit") = {}
        /\ transaction = Null =>
              /\ Positions("transaction") = {1}
              /\ \A p \in Positions("begin") : events[p].on = OwnTransaction
              /\ Cardinality(Positions("commit")) <= 1
              /\ \A p \in Positions("commit") :
                    /\ events[p].on = OwnTransaction
                    /\ p = Len(events)
                    /\ Positions("fault") = {}
                    /\ Cardinality(Positions("end")) = Cardinality(Positions("begin"))
              /\ (Settled /\ Positions("fault") = {}) =>
                    /\ Cardinality(Positions("commit")) = 1
                    /\ Invoked = ModelIndexes

(* C3: on a list mixing model instances with null, primitives and plain
   objects the call raises no error of its own, and the save (delete)
   invocations it makes are exactly the model instances of the list, in list
   order, none on any other entry. *)
C3_OnlyModelInstancesInvoked ==
    Called =>
        /\ rejection \notin {"ReferenceError", "TypeError"}
        /\ IsPrefix(Invoked, ModelIndexes)
        /\ pc = "resolved" => Invoked = ModelIndexes

(* C4 as claimed: on an empty list, with or without a handle, no transaction
   is opened, no commit is issued and no save/delete is invoked. *)
C4_EmptyListNoEffect ==
    (Called /\ modelInstances.items = <<>>) => events = <<>>

(* C4 as amended: on an empty list no save/delete is invoked; with a handle
   supplied nothing at all is done to the engine; with none the call opens
   one transaction and commits it once, and does nothing else. *)
C4_EmptyListOnlyOpensAndCommits ==
    (Called /\ modelInstances.items = <<>>) =>
        /\ Positions("begin") = {}
        /\ transaction # Null => events = <<>>
        /\ transaction = Null =>
              /\ events # <<>>
              /\ IsPrefix(events, <<Event("transaction", 0, OwnTransaction),
                                    Event("commit", 0, OwnTransaction)>>)
              /\ Settled => Len(events) = 2

C4_Witness ==
    /\ Called
    /\ modelInstances.items = <<>>
    /\ transaction = Null
    /\ method = "delete"
    /\ pc = "resolved"
    /\ events = <<Event("transaction", 0, OwnTransaction), Event("commit", 0, OwnTransaction)>>

(* C8: within one call the operations run one after the other in list
   order: an operation begins only on a later entry than every operation
   begun before it, and only after each of those has completed, so never
   are two operations of the batch in progress. *)
C8_OneOperationAtATime ==
    /\ \A p \in Positions("begin"), q \in Positions("begin") :
          p < q =>
             /\ events[p].index < events[q].index
             /\ \E r \in (p + 1)..(q - 1) :
                   events[r].type = "end" /\ events[r].index = events[p].index
    /\ Cardinality({p \in Positions("begin") :
                      \A r \in (p + 1)..Len(events) :
                          ~(events[r].type \in {"end", "fault"}
                            /\ events[r].index = events[p].index)}) <= 1
    /\ pc = "awaitOperation" =>
          /\ events # <<>>
          /\ events[Len(events)] = Event("begin", i, trx)

C8_Witness ==
    /\ pc = "awaitOperation"
    /\ method = "save"
    /\ modelInstances.items = <<ModelInstance, Primitive, ModelInstance>>
    /\ Invoked = <<1, 3>>
    /\ events[Len(events) - 1] = Event("end", 1, trx)

(* C9: when the save/delete of an instance fails, the call rejects with that
   fault, no operation of a later instance is invoked, no commit is issued
   on a transaction the call opened itself, and the call issues no
   rollback. *)
C9_FaultAbortsBatch ==
    \A p \in Positions("fault") :
        /\ p = Len(events)
        /\ pc = "rejected"
        /\ rejection = "OperationFault"
        /\ Positions("commit") = {}
        /\ Positions("rollback") = {}

C9_Witness ==
    /\ Positions("fault") # {}
    /\ transaction = Null
    /\ method = "delete"
    /\ modelInstances.items = <<ModelInstance, ModelInstance, ModelInstance>>
    /\ events[Len(events)] = Event("fault", 2, OwnTransaction)

====
